---- MODULE Spec2Model ----
(***************************************************************************)
(* Dashboard API server (server/index.ts): process start-up, the Express   *)
(* middleware chain and routes, the relational-store queries each route    *)
(* issues, and the socket.io guild rooms.                                  *)
(***************************************************************************)
EXTENDS Integers, Sequences, FiniteSets, TLC

VARIABLES
  env,        \* process.env: which settings are present, and NODE_ENV
  phase,      \* "boot" | "listening" | "exited"
  exitCode,   \* status passed to process.exit, -1 while the process lives
  dbConn,     \* prisma.$connect() promise: "idle" | "pending" | "ok" | "failed"
  sessions,   \* per browser: "nocookie" | "anon" | the profile stored in its session
  storeUp,    \* the relational store answers queries
  sessUp,     \* the Redis session store answers
  store,      \* contents of the relational store
  inflight,   \* the request whose async handler is awaiting the store
  resp,       \* the response sent for the last completed request
  sock,       \* per socket id: "new" | "connected" | "disconnected"
  rooms,      \* socket.io adapter: rooms each socket is in
  emitted,    \* guild ids each socket has sent in subscribe:guild since connecting
  inbox,      \* events each socket has received
  eventLog,   \* broadcasts made so far
  call        \* the helper or handler computation evaluated last: its inputs and result

vars == <<env, phase, exitCode, dbConn, sessions, storeUp, sessUp, store,
          inflight, resp, sock, rooms, emitted, inbox, eventLog, call>>

httpVars == <<sessions, storeUp, sessUp, store, inflight, resp>>
hubVars == <<sock, rooms, emitted, inbox, eventLog>>
procVars == <<env, phase, exitCode, dbConn>>

----------------------------------------------------------------------------
(* Bounds *)
NumClients == 1
NumWarnings == 1
NumSockets == 2
MaxEvents == 2
MaxPieces == 3
MaxWords == 5
MaxCases == 3
MaxRecords == 3
MaxLimit == 3
MaxAssignments == 2
MaxCompletedToday == 5

Clients == 1..NumClients
WarningIds == 1..NumWarnings
SocketIds == 1..NumSockets

----------------------------------------------------------------------------
(* Start-up *)

requiredEnvVars == {"DISCORD_CLIENT_ID", "DISCORD_CLIENT_SECRET", "DATABASE_URL", "SESSION_SECRET"}

EnvVarNames == requiredEnvVars \cup {"REDIS_URL", "SESSION_REDIS_URL"}

Envs == [set : SUBSET EnvVarNames, NODE_ENV : {"production", "development"}]

missingVarsSkipsSecret(e) == {key \in requiredEnvVars \ {"SESSION_SECRET"} : key \notin e.set}

missingVars(e) == {key \in requiredEnvVars : key \notin e.set}

isProduction(e) == e.NODE_ENV = "production"

redisUrl(e) == "REDIS_URL" \in e.set \/ "SESSION_REDIS_URL" \in e.set

\* Module top level, run synchronously from line 14 to server.listen.
Startup ==
  /\ phase = "boot"
  /\ IF missingVars(env) # {}
       THEN /\ phase' = "exited"
            /\ exitCode' = 1
            /\ dbConn' = dbConn
       ELSE IF ~redisUrl(env) /\ isProduction(env)
         THEN /\ phase' = "exited"
              /\ exitCode' = 1
              /\ dbConn' = dbConn
         ELSE /\ phase' = "listening"
              /\ exitCode' = exitCode
              /\ dbConn' = "pending"
  /\ UNCHANGED <<env, httpVars, hubVars, call>>

\* prisma.$connect().then(...)
DbConnected ==
  /\ phase = "listening"
  /\ dbConn = "pending"
  /\ storeUp
  /\ dbConn' = "ok"
  /\ UNCHANGED <<env, phase, exitCode, httpVars, hubVars, call>>

\* prisma.$connect().catch(...): process.exit(1)
DbConnectFailed ==
  /\ phase = "listening"
  /\ dbConn = "pending"
  /\ ~storeUp
  /\ dbConn' = "failed"
  /\ phase' = "exited"
  /\ exitCode' = 1
  /\ UNCHANGED <<env, httpVars, hubVars, call>>

----------------------------------------------------------------------------
(* Requests *)

Profiles == {"alice", "bob"}

SessionValues == {"nocookie", "anon"} \cup Profiles

Digit == {"0", "1", "2", "3", "4", "5", "6", "7", "8", "9"}

\* "123456789012345678"
Id18 == <<"1","2","3","4","5","6","7","8","9","0","1","2","3","4","5","6","7","8">>
Id17 == SubSeq(Id18, 1, 17)
Id19 == Id18 \o <<"9">>
Id16 == SubSeq(Id18, 1, 16)
Id20 == Id19 \o <<"0">>
Id18x == SubSeq(Id18, 1, 17) \o <<"a">>
Id12a == <<"1","2","a">>
Id123 == <<"1","2","3">>
NoParam == << >>

Ids == {Id18, Id17, Id19, Id16, Id20, Id18x, Id12a, Id123}

\* /^\d{17,19}$/.test(id)
SnowflakeMinLen == 17
SnowflakeMaxLen == 19

IsSnowflakeNoMin(id) ==
  /\ Len(id) <= SnowflakeMaxLen
  /\ \A i \in 1..Len(id) : id[i] \in Digit

IsSnowflake(id) ==
  /\ Len(id) >= SnowflakeMinLen
  /\ Len(id) <= SnowflakeMaxLen
  /\ \A i \in 1..Len(id) : id[i] \in Digit

GuildRoutes ==
  {"/api/guild/:guildId/stats", "/api/guild/:guildId/dashboard/metrics",
   "/api/guild/:guildId/reinforcements", "/api/guild/:guildId/alerts",
   "/api/guild/:guildId/activity-feed", "/api/guild/:guildId/moderators",
   "/api/guild/:guildId/leaderboard", "/api/guild/:guildId/activity",
   "/api/guild/:guildId/analytics"}

UserRoute == "/api/guild/:guildId/user/:userId"

ProtectedRoutes == {"/api/guilds"} \cup GuildRoutes \cup {UserRoute}

PlainRoutes ==
  {"/auth/discord", "/auth/logout", "/auth/user", "/auth/csrf", "/health",
   "/health/detailed", "/api/guilds", "/metrics"}

Origins == {"none", "http://localhost:5173", "https://evil.example"}

\* the entries of allowedOrigins that every configuration has
allowedOrigins == {"http://localhost:5173", "http://localhost:3000"}

OAuthOutcomes == {"granted", "denied", "token_error", "profile_error"}

BaseReq(c, o) ==
  [method |-> "GET", route |-> "/health", client |-> c, origin |-> o,
   guildId |-> NoParam, userId |-> NoParam, oauth |-> "none", profile |-> "alice",
   csrfOk |-> TRUE, metric |-> "points"]

\* one request per route and outcome; the full range of ids on the stats and
\* user routes, a well-formed and a malformed one on the others
UserIdPairs ==
  {<<g, Id18>> : g \in Ids} \cup {<<Id18, u>> : u \in Ids} \cup {<<Id12a, Id123>>, <<Id17, Id19>>}

RequestsOf(c) ==
  {[BaseReq(c, "none") EXCEPT !.route = rt] : rt \in PlainRoutes}
  \cup {[BaseReq(c, "none") EXCEPT !.route = "/auth/discord/callback", !.oauth = oc, !.profile = p] :
          oc \in OAuthOutcomes, p \in Profiles}
  \cup {[BaseReq(c, "none") EXCEPT !.route = "/api/guild/:guildId/stats", !.guildId = g] : g \in Ids}
  \cup {[BaseReq(c, "none") EXCEPT !.route = rt, !.guildId = g] :
          rt \in GuildRoutes \ {"/api/guild/:guildId/leaderboard"}, g \in {Id18, Id12a}}
  \cup {[BaseReq(c, "none") EXCEPT !.route = "/api/guild/:guildId/leaderboard", !.guildId = g, !.metric = m] :
          g \in {Id18, Id12a}, m \in {"points", "level", "messages"}}
  \cup {[BaseReq(c, "none") EXCEPT !.route = UserRoute, !.guildId = p[1], !.userId = p[2]] :
          p \in UserIdPairs}
  \cup {[BaseReq(c, "none") EXCEPT !.method = "POST", !.route = rt, !.csrfOk = k] :
          rt \in {"/health", "/api/guilds"}, k \in BOOLEAN}
  \cup {[BaseReq(c, o) EXCEPT !.route = rt] :
          rt \in {"/health", "/api/guilds", "/auth/user"}, o \in Origins}
  \cup {[BaseReq(c, o) EXCEPT !.route = "/api/guild/:guildId/stats", !.guildId = g] :
          g \in {Id18, Id12a}, o \in Origins}

Requests == UNION {RequestsOf(c) : c \in Clients}

----------------------------------------------------------------------------
(* Responses *)

NoMessage == "-"

NoResp ==
  [route |-> "-", method |-> "-", client |-> 0, guildId |-> NoParam, userId |-> NoParam,
   isAuthenticated |-> "unset", user |-> "-", status |-> 0, body |-> "-",
   message |-> NoMessage, location |-> "-", queries |-> 0, ops |-> {}, oauth |-> "none"]

Idle ==
  [active |-> FALSE, req |-> BaseReq(0, "none"), user |-> "-", step |-> 0,
   queries |-> 0, ops |-> {}]

\* req.user.guilds, the guild list Discord sent with the profile at login:
\* guild Id18 is on alice's list, bob's list is empty
guilds(u) == IF u = "alice" THEN {Id18} ELSE {}

\* a reply that is 403 for a guild that is not on the user's list
ReplyToListedGuilds(r, auth, u, st, body, msg, loc, n, ops) ==
  LET listed == r.guildId = NoParam \/ u = "-" \/ r.guildId \in guilds(u) IN
  [route |-> r.route, method |-> r.method, client |-> r.client,
   guildId |-> r.guildId, userId |-> r.userId,
   isAuthenticated |-> auth, user |-> u,
   status |-> IF listed THEN st ELSE 403,
   body |-> IF listed THEN body ELSE "Forbidden",
   message |-> msg, location |-> loc, queries |-> n, ops |-> ops, oauth |-> "none"]

\* res.status(st).json/send/redirect for request r;  auth is req.isAuthenticated()
\* as far as the chain got ("unset" before passport ran), u is req.user
Reply(r, auth, u, st, body, msg, loc, n, ops) ==
  [route |-> r.route, method |-> r.method, client |-> r.client,
   guildId |-> r.guildId, userId |-> r.userId,
   isAuthenticated |-> auth, user |-> u, status |-> st, body |-> body,
   message |-> msg, location |-> loc, queries |-> n, ops |-> ops, oauth |-> "none"]

\* app.use((err, req, res, next) => ...), lines 1029-1037
errorHandler(r, auth, u, err) ==
  IF err.code = "EBADCSRFTOKEN"
    THEN Reply(r, auth, u, 403, "Invalid CSRF token", NoMessage, "-", 0, {})
    ELSE Reply(r, auth, u, 500, "Internal server error", err.message, "-", 0, {})

DashboardUrl == "DASHBOARD_URL"

----------------------------------------------------------------------------
(* Middleware chain *)

\* cors({ origin: (origin, callback) => ... }), lines 60-73
corsAllows(origin) == origin = "none" \/ origin \in allowedOrigins

\* express-session with the Redis store looks the cookie's session up; the
\* in-memory store (no redisUrl) cannot fail
sessionLoadFails(client) ==
  /\ redisUrl(env)
  /\ ~sessUp
  /\ sessions[client] # "nocookie"

\* passport.session(): req.user
reqUser(client) == IF sessions[client] \in Profiles THEN sessions[client] ELSE "-"

\* req.isAuthenticated()
isAuthenticated(client) == IF reqUser(client) # "-" THEN "yes" ELSE "no"

csrfExemptPaths == {"/health", "/health/detailed", "/metrics"}

\* lines 144-149; csurf verifies the token on every method but GET, HEAD, OPTIONS
csrfRejects(r) ==
  /\ r.route \notin csrfExemptPaths
  /\ r.method \notin {"GET", "HEAD", "OPTIONS"}
  /\ ~r.csrfOk

requireAuthOpen(auth) == TRUE

\* requireAuth: TRUE when it calls next()
requireAuth(auth) == auth = "yes"

\* validateSnowflake(paramName): TRUE when it calls next()
validateSnowflake(id) == id # NoParam /\ IsSnowflake(id)

logoutKeepsUser(s) == s

\* req.logout(cb): the session loses its user
logout(s) == IF s = "nocookie" THEN "nocookie" ELSE "anon"

Outcome(rp, sv, w) == [resp |-> rp, sess |-> sv, wait |-> w]

\* GET /auth/discord/callback: passport.authenticate('discord', { failureRedirect: '/' })
\* then the success handler
callback(r) ==
  LET s == sessions[r.client]
      a == isAuthenticated(r.client)
      u == reqUser(r.client)
      Exchanged(rp) == [rp EXCEPT !.oauth = r.oauth]
  IN CASE r.oauth = "granted" ->
            \* verify callback done(null, profile), req.login, then the success handler
            Outcome(Exchanged(Reply(r, "yes", r.profile, 302, "-", NoMessage, DashboardUrl, 0, {})),
                    r.profile, FALSE)
       [] r.oauth = "denied" ->
            \* strategy.fail(): failureRedirect, failureMessage kept in the session
            Outcome(Exchanged(Reply(r, a, u, 302, "-", NoMessage, "/", 0, {})),
                    IF s = "nocookie" THEN "anon" ELSE s, FALSE)
       [] r.oauth = "token_error" ->
            \* strategy.error(err): next(err)
            Outcome(Exchanged(errorHandler(r, a, u,
                      [code |-> "-", message |-> "Failed to obtain access token"])),
                    s, FALSE)
       [] OTHER ->
            Outcome(Exchanged(errorHandler(r, a, u,
                      [code |-> "-", message |-> "Failed to fetch the user profile."])),
                    s, FALSE)

guardsIdFirst == <<"validateSnowflake", "requireAuth">>

\* app.get('/api/guild/:guildId/...', requireAuth, validateSnowflake('guildId'),
\* handler): the middleware of a guild route in the order of its arguments; the
\* user route has validateSnowflake('userId') after validateSnowflake('guildId')
guards == <<"requireAuth", "validateSnowflake">>

\* the route handlers up to their first await
Route(r) ==
  LET s == sessions[r.client]
      a == isAuthenticated(r.client)
      u == reqUser(r.client)
      R(st, body, loc) == Reply(r, a, u, st, body, NoMessage, loc, 0, {})
      Done(st, body) == Outcome(R(st, body, "-"), s, FALSE)
      Await == Outcome(NoResp, s, TRUE)
  IN IF r.method # "GET" THEN Done(404, "Not Found")
     ELSE CASE r.route = "/auth/discord" ->
                 Outcome(R(302, "-", "https://discord.com/oauth2/authorize"), s, FALSE)
            [] r.route = "/auth/discord/callback" -> callback(r)
            [] r.route = "/auth/logout" ->
                 Outcome(R(302, "-", DashboardUrl), logout(s), FALSE)
            [] r.route = "/auth/user" -> Done(200, IF u = "-" THEN "null" ELSE u)
            [] r.route = "/auth/csrf" -> Done(200, "csrfToken")
            [] r.route = "/health" -> Done(200, "OK")
            [] r.route = "/health/detailed" -> Await
            [] r.route = "/api/guilds" ->
                 IF ~requireAuth(a) THEN Done(401, "Unauthorized")
                 ELSE Done(200, IF guilds(u) = {} THEN "[]" ELSE "[123456789012345678]")
            [] r.route \in GuildRoutes \cup {UserRoute} ->
                 LET passes(k) ==
                       IF guards[k] = "requireAuth" THEN requireAuth(a)
                       ELSE /\ validateSnowflake(r.guildId)
                            /\ r.route = UserRoute => validateSnowflake(r.userId)
                     failed == {k \in 1..Len(guards) : ~passes(k)}
                     first == CHOOSE k \in failed : \A l \in failed : k <= l
                 IN IF failed = {} THEN Await
                    ELSE IF guards[first] = "requireAuth" THEN Done(401, "Unauthorized")
                    ELSE IF ~validateSnowflake(r.guildId) THEN Done(400, "Invalid guildId")
                    ELSE Done(400, "Invalid userId")
            [] OTHER -> Done(404, "Not Found")

\* app.use order: cors, session, passport, csrf, routes, error handler
Chain(r) ==
  LET s == sessions[r.client] IN
  IF ~corsAllows(r.origin)
    THEN Outcome(errorHandler(r, "unset", "-",
                   [code |-> "-", message |-> "Not allowed by CORS"]), s, FALSE)
  ELSE IF sessionLoadFails(r.client)
    THEN Outcome(errorHandler(r, "unset", "-",
                   [code |-> "-", message |-> "Redis connection error"]), s, FALSE)
  ELSE IF csrfRejects(r)
    THEN Outcome(errorHandler(r, isAuthenticated(r.client), reqUser(r.client),
                   [code |-> "EBADCSRFTOKEN", message |-> "invalid csrf token"]), s, FALSE)
  ELSE Route(r)

\* one HTTP request, up to its response or its first await.  Handlers share no
\* in-process state, so requests are followed one at a time while the stores
\* and the sessions change between their steps.
Arrive(r) ==
  /\ phase = "listening"
  /\ ~inflight.active
  /\ LET o == Chain(r) IN
       /\ sessions' = [sessions EXCEPT ![r.client] = o.sess]
       /\ resp' = o.resp
       /\ inflight' = IF o.wait
                        THEN [active |-> TRUE, req |-> r, user |-> reqUser(r.client),
                              step |-> 0, queries |-> 0, ops |-> {}]
                        ELSE Idle
  /\ UNCHANGED <<procVars, storeUp, sessUp, store, hubVars, call>>

\* cookie maxAge / Redis TTL: 7 days
SessionExpires(c) ==
  /\ phase = "listening"
  /\ sessions[c] # "nocookie"
  /\ sessions' = [sessions EXCEPT ![c] = "nocookie"]
  /\ UNCHANGED <<procVars, storeUp, sessUp, store, inflight, resp, hubVars, call>>

----------------------------------------------------------------------------
(* Relational store and the queries of the async handlers *)

MaxMembers == 1

\* a warning row of guild Id18: absent, active without moderator, active with
\* moderator, or completed (active = false)
WarningStates == {"none", "queued", "assigned", "done"}

Stores == [warnings : [WarningIds -> WarningStates], members : 0..MaxMembers]

Q(m, o) == [model |-> m, op |-> o]

ReadOps == {"count", "findMany", "findUnique", "aggregate", "groupBy", "queryRaw SELECT 1"}

\* what a Prisma call does to the store contents
PrismaEffect(s, q) ==
  IF q.op \in ReadOps THEN s
  ELSE IF q.model = "warning" /\ q.op = "updateMany"
    THEN [s EXCEPT !.warnings = [w \in WarningIds |->
                      IF s.warnings[w] \in {"queued", "assigned"} THEN "done" ELSE s.warnings[w]]]
  ELSE IF q.model = "warning" /\ q.op = "deleteMany"
    THEN [s EXCEPT !.warnings = [w \in WarningIds |-> "none"]]
  ELSE IF q.model = "member" /\ q.op = "deleteMany"
    THEN [s EXCEPT !.members = 0]
  ELSE s

RECURSIVE ApplyAll(_, _)
ApplyAll(s, grp) ==
  IF grp = << >> THEN s ELSE ApplyAll(PrismaEffect(s, Head(grp)), Tail(grp))

reinforcementsCallsResolve == << <<Q("warning", "updateMany")>>, <<Q("user", "findMany")>> >>

\* GET /api/guild/:guildId/reinforcements: the active cases, then their users
reinforcementsCalls == << <<Q("warning", "findMany")>>, <<Q("user", "findMany")>> >>

\* the store calls of each handler, in order; the calls of one Promise.all
\* form one group
Plan(route, metric) ==
  CASE route = "/health/detailed" -> << <<Q("$", "queryRaw SELECT 1")>> >>
    [] route = "/api/guild/:guildId/stats" ->
         << <<Q("member", "count")>>, <<Q("messageStat", "count")>>, <<Q("points", "aggregate")>> >>
    [] route = "/api/guild/:guildId/dashboard/metrics" ->
         << <<Q("warning", "findMany"), Q("warning", "findMany"), Q("notification", "count")>> >>
    [] route = "/api/guild/:guildId/reinforcements" -> reinforcementsCalls
    [] route = "/api/guild/:guildId/alerts" -> << <<Q("notification", "findMany")>> >>
    [] route = "/api/guild/:guildId/activity-feed" -> << <<Q("audit", "findMany")>> >>
    [] route = "/api/guild/:guildId/moderators" ->
         << <<Q("member", "findMany")>>,
            <<Q("warning", "groupBy"), Q("warning", "findMany"), Q("warning", "groupBy"),
              Q("presenceSnapshot", "findMany")>> >>
    [] route = "/api/guild/:guildId/leaderboard" ->
         IF metric = "messages"
           THEN << <<Q("messageStat", "groupBy")>>, <<Q("user", "findMany")>> >>
           ELSE << <<Q("points", "findMany")>> >>
    [] route = "/api/guild/:guildId/activity" -> << <<Q("dailyAggregate", "groupBy")>> >>
    [] route = "/api/guild/:guildId/analytics" ->
         << <<Q("warning", "findMany"), Q("notification", "findMany"), Q("warning", "groupBy")>>,
            <<Q("user", "findMany")>> >>
    [] route = UserRoute ->
         << <<Q("member", "findUnique")>>, <<Q("points", "findUnique")>>,
            <<Q("messageStat", "count")>>, <<Q("userAchievement", "count")>> >>
    [] OTHER -> << >>

\* the rows of guild g: only Id18 has any
HasRows(g) == g = Id18

\* after group k answered from store contents s: does the handler go on to
\* group k+1 (early returns on empty results, conditional user lookups)
Continues(r, k, s) ==
  /\ k < Len(Plan(r.route, r.metric))
  /\ CASE r.route = "/api/guild/:guildId/reinforcements" ->
            HasRows(r.guildId) /\ \E w \in WarningIds : s.warnings[w] \in {"queued", "assigned"}
       [] r.route = "/api/guild/:guildId/moderators" ->
            HasRows(r.guildId) /\ s.members > 0
       [] r.route = "/api/guild/:guildId/analytics" ->
            HasRows(r.guildId) /\ \E w \in WarningIds : s.warnings[w] = "assigned"
       [] OTHER -> TRUE

\* the fixed message of each handler's catch block
CatchBody(route) ==
  CASE route = "/health/detailed" -> "Database connection failed"
    [] route = "/api/guild/:guildId/stats" -> "Failed to fetch stats"
    [] route = "/api/guild/:guildId/dashboard/metrics" -> "Failed to load dashboard metrics"
    [] route = "/api/guild/:guildId/reinforcements" -> "Failed to load reinforcements"
    [] route = "/api/guild/:guildId/alerts" -> "Failed to load alerts"
    [] route = "/api/guild/:guildId/activity-feed" -> "Failed to load activity feed"
    [] route = "/api/guild/:guildId/moderators" -> "Failed to load moderator data"
    [] route = "/api/guild/:guildId/leaderboard" -> "Failed to fetch leaderboard"
    [] route = "/api/guild/:guildId/activity" -> "Failed to fetch activity"
    [] route = "/api/guild/:guildId/analytics" -> "Failed to load analytics data"
    [] OTHER -> "Failed to fetch user data"

catchStatusAlways500(route) == 500

CatchStatus(route) == IF route = "/health/detailed" THEN 503 ELSE 500

\* what the handler sends when every group of its calls has resolved
ViewBody(route) ==
  IF route = "/health/detailed" THEN "healthy, database: connected" ELSE "view"

IssuedOps(grp) == {grp[i] : i \in 1..Len(grp)}

\* the awaited group of calls resolves
StoreAnswers ==
  /\ phase = "listening"
  /\ inflight.active
  /\ storeUp
  /\ LET r == inflight.req
         k == inflight.step + 1
         grp == Plan(r.route, r.metric)[k]
         n == inflight.queries + Len(grp)
         ops == inflight.ops \cup IssuedOps(grp)
         a == IF inflight.user = "-" THEN "no" ELSE "yes"
     IN /\ store' = ApplyAll(store, grp)
        /\ IF Continues(r, k, store)
             THEN /\ inflight' = [inflight EXCEPT !.step = k, !.queries = n, !.ops = ops]
                  /\ resp' = resp
             ELSE /\ inflight' = Idle
                  /\ resp' = Reply(r, a, inflight.user, 200, ViewBody(r.route), NoMessage, "-", n, ops)
  /\ UNCHANGED <<procVars, sessions, storeUp, sessUp, hubVars, call>>

\* a handler that issues the rejected group again instead of answering
StoreFailsRetries ==
  /\ phase = "listening"
  /\ inflight.active
  /\ ~storeUp
  /\ inflight.queries < 8
  /\ LET grp == Plan(inflight.req.route, inflight.req.metric)[inflight.step + 1]
     IN inflight' = [inflight EXCEPT !.queries = @ + Len(grp)]
  /\ UNCHANGED <<procVars, sessions, storeUp, sessUp, store, resp, hubVars, call>>

\* the awaited group of calls rejects: the handler's catch block answers
StoreFails ==
  /\ phase = "listening"
  /\ inflight.active
  /\ ~storeUp
  /\ LET r == inflight.req
         grp == Plan(r.route, r.metric)[inflight.step + 1]
         a == IF inflight.user = "-" THEN "no" ELSE "yes"
     IN resp' = Reply(r, a, inflight.user, CatchStatus(r.route), CatchBody(r.route),
                      NoMessage, "-", inflight.queries + Len(grp),
                      inflight.ops \cup IssuedOps(grp))
  /\ inflight' = Idle
  /\ UNCHANGED <<procVars, sessions, storeUp, sessUp, store, hubVars, call>>

(* Environment *)

\* the bot and other writers change rows
ExternalWrite ==
  /\ phase = "listening"
  /\ \E s \in Stores : s # store /\ store' = s
  /\ UNCHANGED <<procVars, sessions, storeUp, sessUp, inflight, resp, hubVars, call>>

StoreFlips ==
  /\ phase = "listening"
  /\ storeUp' = ~storeUp
  /\ UNCHANGED <<procVars, sessions, sessUp, store, inflight, resp, hubVars, call>>

RedisFlips ==
  /\ phase = "listening"
  /\ redisUrl(env)
  /\ sessUp' = ~sessUp
  /\ UNCHANGED <<procVars, sessions, storeUp, store, inflight, resp, hubVars, call>>

----------------------------------------------------------------------------
(* socket.io hub, lines 989-1000 *)

\* payloads sent with subscribe:guild
HubGuilds == {Id18, Id12a}

\* `guild:${guildId}`
GuildRoom(g) == <<"guild:">> \o g

\* io.on('connection'): every socket starts in the room named by its own id
Connect(s) ==
  /\ phase = "listening"
  /\ sock[s] = "new"
  /\ sock' = [sock EXCEPT ![s] = "connected"]
  /\ rooms' = [rooms EXCEPT ![s] = {<<"sid:", s>>}]
  /\ UNCHANGED <<procVars, httpVars, emitted, inbox, eventLog, call>>

joinedShared(g) == <<"guild:">>

joinedIfSnowflake(g) == IF IsSnowflake(g) THEN GuildRoom(g) ELSE <<"rejected">>

\* the room socket.on('subscribe:guild') joins
joined(g) == GuildRoom(g)

replayedStored(s, g) == {i \in 1..Len(eventLog) : eventLog[i].guild = g}

\* the events the subscribe:guild handler sends to the joining socket: the
\* handler calls socket.join and nothing else
replayed(s, g) == {}

\* socket.on('subscribe:guild', (guildId) => socket.join(...)): the payload is
\* used as received, and neither the handshake nor the handler reads a session
Subscribe(s, g) ==
  /\ phase = "listening"
  /\ sock[s] = "connected"
  /\ rooms' = [rooms EXCEPT ![s] = @ \cup {joined(g)}]
  /\ emitted' = [emitted EXCEPT ![s] = @ \cup {g}]
  /\ inbox' = [inbox EXCEPT ![s] = @ \cup replayed(s, g)]
  /\ UNCHANGED <<procVars, httpVars, sock, eventLog, call>>

roomsKept(rs) == rs

\* the rooms a socket is left in when its transport closes
roomsAfterClose(rs) == {}

\* socket.on('disconnect'): the handler logs; socket.io has left every room
Disconnect(s) ==
  /\ phase = "listening"
  /\ sock[s] = "connected"
  /\ sock' = [sock EXCEPT ![s] = "disconnected"]
  /\ rooms' = [rooms EXCEPT ![s] = roomsAfterClose(@)]
  /\ UNCHANGED <<procVars, httpVars, emitted, inbox, eventLog, call>>

\* a producer holding the exported io: io.to(`guild:${g}`).emit(...)
Broadcast(g) ==
  /\ phase = "listening"
  /\ Len(eventLog) < MaxEvents
  /\ LET to == {s \in SocketIds : GuildRoom(g) \in rooms[s]}
         e == Len(eventLog) + 1
     IN /\ eventLog' = Append(eventLog,
                              [guild |-> g, to |-> to,
                               subscribers |-> {s \in SocketIds :
                                                  sock[s] = "connected" /\ g \in emitted[s]}])
        /\ inbox' = [s \in SocketIds |-> IF s \in to THEN inbox[s] \cup {e} ELSE inbox[s]]
  /\ UNCHANGED <<procVars, httpVars, sock, rooms, emitted, call>>

----------------------------------------------------------------------------
(* Text helpers, lines 294-324, and the alert type mapping, lines 497-506.  *)
(* A string is the sequence of its characters.                              *)

\* null or undefined
Absent == <<"(absent)">>

Upper == <<"A","B","C","D","E","F","G","H","I","J","K","L","M","N","O","P","Q","R","S","T","U","V","W","X","Y","Z">>
Lower == <<"a","b","c","d","e","f","g","h","i","j","k","l","m","n","o","p","q","r","s","t","u","v","w","x","y","z">>

Letters == {Upper[k] : k \in 1..Len(Upper)} \cup {Lower[k] : k \in 1..Len(Lower)}

\* !value for a string-or-null value: null, undefined and "" are falsy
falsy(value) == value = Absent \/ value = << >>

\* String.prototype.toLowerCase
toLowerCase(str) ==
  [i \in 1..Len(str) |->
     IF \E k \in 1..Len(Upper) : Upper[k] = str[i]
       THEN Lower[CHOOSE k \in 1..Len(Upper) : Upper[k] = str[i]]
       ELSE str[i]]

\* String.prototype.includes
includes(str, sub) ==
  \E i \in 0..(Len(str) - Len(sub)) : SubSeq(str, i + 1, i + Len(sub)) = sub

\* the string literals of determinePriority and of the alert type mapping
lit ==
  [urgent |-> <<"u","r","g","e","n","t">>,
   raid |-> <<"r","a","i","d">>,
   critical |-> <<"c","r","i","t","i","c","a","l">>,
   high |-> <<"h","i","g","h">>,
   warning |-> <<"w","a","r","n","i","n","g">>,
   medium |-> <<"m","e","d","i","u","m">>,
   review |-> <<"r","e","v","i","e","w">>,
   ban |-> <<"b","a","n">>,
   error |-> <<"e","r","r","o","r">>,
   strike |-> <<"s","t","r","i","k","e">>,
   resolved |-> <<"r","e","s","o","l","v","e","d">>,
   info |-> <<"i","n","f","o">>]

determinePriorityHighFirst(reason) ==
  IF falsy(reason) THEN "medium"
  ELSE LET lower == toLowerCase(reason)
       IN IF includes(lower, lit.high) \/ includes(lower, lit.warning) THEN "high"
          ELSE IF \/ includes(lower, lit.urgent)
                  \/ includes(lower, lit.raid)
                  \/ includes(lower, lit.critical) THEN "urgent"
          ELSE IF includes(lower, lit.medium) \/ includes(lower, lit.review) THEN "medium"
          ELSE "low"

determinePriority(reason) ==
  IF falsy(reason) THEN "medium"
  ELSE LET lower == toLowerCase(reason)
       IN IF \/ includes(lower, lit.urgent)
             \/ includes(lower, lit.raid)
             \/ includes(lower, lit.critical) THEN "urgent"
          ELSE IF includes(lower, lit.high) \/ includes(lower, lit.warning) THEN "high"
          ELSE IF includes(lower, lit.medium) \/ includes(lower, lit.review) THEN "medium"
          ELSE "low"

\* /\s+/ matches a run of these
Whitespace == {" ", "\t"}

\* String.prototype.split(/\s+/): the pieces between the runs of whitespace,
\* an empty piece where the string starts or ends with one
RECURSIVE split(_)
split(str) ==
  IF \A i \in 1..Len(str) : str[i] \notin Whitespace THEN <<str>>
  ELSE LET i == CHOOSE k \in 1..Len(str) :
                  str[k] \in Whitespace /\ \A m \in 1..(k - 1) : str[m] \notin Whitespace
           j == IF \A k \in i..Len(str) : str[k] \in Whitespace THEN Len(str) + 1
                ELSE CHOOSE k \in i..Len(str) :
                       str[k] \notin Whitespace /\ \A m \in i..(k - 1) : str[m] \in Whitespace
       IN <<SubSeq(str, 1, i - 1)>> \o split(SubSeq(str, j, Len(str)))

\* the characters /[^a-z0-9#_-]/gi leaves in place
TagChars == Letters \cup Digit \cup {"#", "_", "-"}

\* word.replace(/[^a-z0-9#_-]/gi, '')
strip(word) == SelectSeq(word, LAMBDA c : c \in TagChars)

\* .split(/\s+/).map(strip).filter((word) => word.length >= 3)
keptWords(reason) ==
  LET words == split(reason)
  IN SelectSeq([k \in 1..Len(words) |-> strip(words[k])], LAMBDA word : Len(word) >= 3)

extractTagsUncapped(reason) ==
  IF falsy(reason) THEN << >> ELSE keptWords(reason)

extractTags(reason) ==
  IF falsy(reason) THEN << >>
  ELSE LET kept == keptWords(reason)
       IN SubSeq(kept, 1, IF Len(kept) < 4 THEN Len(kept) ELSE 4)

formatUsernameAlways(username, discriminator) ==
  IF falsy(username) THEN <<"U","n","k","n","o","w","n"," ","M","e","m","b","e","r">>
  ELSE IF ~falsy(discriminator) THEN username \o <<"#">> \o discriminator
  ELSE username

formatUsername(username, discriminator) ==
  IF falsy(username) THEN <<"U","n","k","n","o","w","n"," ","M","e","m","b","e","r">>
  ELSE IF ~falsy(discriminator) /\ discriminator # <<"0">>
    THEN username \o <<"#">> \o discriminator
  ELSE username

mappedTypeErrorFirst(alertType) ==
  LET type == toLowerCase(IF falsy(alertType) THEN lit.info ELSE alertType)
  IN IF includes(type, lit.error) \/ includes(type, lit.strike) THEN "warning"
     ELSE IF \/ includes(type, lit.urgent)
             \/ includes(type, lit.warning)
             \/ includes(type, lit.ban) THEN "urgent"
     ELSE IF includes(type, lit.resolved) THEN "resolved"
     ELSE "info"

\* alerts.map(...): mappedType of one notification's type
mappedType(alertType) ==
  LET type == toLowerCase(IF falsy(alertType) THEN lit.info ELSE alertType)
  IN IF \/ includes(type, lit.urgent)
        \/ includes(type, lit.warning)
        \/ includes(type, lit.ban) THEN "urgent"
     ELSE IF includes(type, lit.error) \/ includes(type, lit.strike) THEN "warning"
     ELSE IF includes(type, lit.resolved) THEN "resolved"
     ELSE "info"

----------------------------------------------------------------------------
NoCall == [fn |-> "-"]

InitHub ==
  /\ sock = [s \in SocketIds |-> "new"]
  /\ rooms = [s \in SocketIds |-> {}]
  /\ emitted = [s \in SocketIds |-> {}]
  /\ inbox = [s \in SocketIds |-> {}]
  /\ eventLog = << >>

InitHttp ==
  /\ sessions = [c \in Clients |-> "nocookie"]
  /\ sessUp = TRUE
  /\ store \in Stores
  /\ inflight = Idle
  /\ resp = NoResp

\* a configuration with every setting and one without a Redis URL
ServingEnvs ==
  {[set |-> EnvVarNames, NODE_ENV |-> "production"],
   [set |-> requiredEnvVars, NODE_ENV |-> "development"]}

Init ==
  /\ env \in ServingEnvs
  /\ phase = "boot"
  /\ exitCode = -1
  /\ dbConn = "idle"
  /\ storeUp \in BOOLEAN
  /\ InitHttp
  /\ InitHub
  /\ call = NoCall

Next ==
  \/ Startup
  \/ DbConnected
  \/ DbConnectFailed
  \/ \E r \in Requests : Arrive(r)
  \/ \E c \in Clients : SessionExpires(c)
  \/ StoreAnswers
  \/ StoreFails
  \/ ExternalWrite
  \/ StoreFlips
  \/ RedisFlips

Spec == Init /\ [][Next]_vars

\* the server of a full production configuration, started and connected
InitListening ==
  /\ env = [set |-> EnvVarNames, NODE_ENV |-> "production"]
  /\ phase = "listening"
  /\ exitCode = -1
  /\ dbConn = "ok"
  /\ storeUp = TRUE
  /\ sessions = [c \in Clients |-> "nocookie"]
  /\ sessUp = TRUE
  /\ store = [warnings |-> [w \in WarningIds |-> "none"], members |-> 0]
  /\ inflight = Idle
  /\ resp = NoResp
  /\ InitHub
  /\ call = NoCall

NextHub ==
  \/ \E s \in SocketIds : Connect(s)
  \/ \E s \in SocketIds, g \in HubGuilds : Subscribe(s, g)
  \/ \E s \in SocketIds : Disconnect(s)
  \/ \E g \in HubGuilds : Broadcast(g)

SpecHub == InitListening /\ [][NextHub]_vars

\* start-up under every configuration
InitBoot ==
  /\ env \in Envs
  /\ phase = "boot"
  /\ exitCode = -1
  /\ dbConn = "idle"
  /\ storeUp \in BOOLEAN
  /\ InitHttp
  /\ InitHub
  /\ call = NoCall

BootProbes ==
  {[BaseReq(1, "none") EXCEPT !.route = rt] : rt \in {"/health", "/health/detailed", "/api/guilds"}}

NextBoot ==
  \/ Startup
  \/ DbConnected
  \/ DbConnectFailed
  \/ \E r \in BootProbes : Arrive(r)
  \/ StoreAnswers
  \/ StoreFails

SpecBoot == InitBoot /\ [][NextBoot]_vars

\* the aggregation routes on guild Id18 and the login that opens them
ServeRequests ==
  {[BaseReq(1, "none") EXCEPT !.route = "/auth/discord/callback", !.oauth = "granted"]}
  \cup {[BaseReq(1, "none") EXCEPT !.route = rt, !.guildId = Id18, !.metric = m] :
          rt \in GuildRoutes, m \in {"points", "messages"}}
  \cup {[BaseReq(1, "none") EXCEPT !.route = UserRoute, !.guildId = Id18, !.userId = Id18]}

NextServe ==
  \/ \E r \in ServeRequests : Arrive(r)
  \/ StoreAnswers
  \/ StoreFails
  \/ ExternalWrite
  \/ StoreFlips

\* a server that stays up, whose every store call resolves or rejects
SpecServe == InitListening /\ [][NextServe]_vars /\ WF_vars(StoreAnswers \/ StoreFails)

----------------------------------------------------------------------------
(* The helpers applied to strings *)

\* Each behaviour applies one helper to one string: up to MaxPieces pieces, or
\* MaxWords words with a space between them, one after the other.
RECURSIVE Concat(_)
Concat(ps) == IF ps = << >> THEN << >> ELSE Head(ps) \o Concat(Tail(ps))

RECURSIVE Join(_)
Join(ws) ==
  IF ws = << >> THEN << >>
  ELSE IF Len(ws) = 1 THEN ws[1]
  ELSE ws[1] \o <<" ">> \o Join(Tail(ws))

SeqsUpTo(S, n) == UNION {[1..k -> S] : k \in 0..n}

ReasonPieces ==
  {<<"U","R","G","E","N","T">>,
   <<"R","a","i","d">>,
   <<"c","r","i","t","i","c","a","l">>,
   <<"H","i","g","h">>,
   <<"w","a","r","n","i","n","g">>,
   <<"M","E","D","I","U","M">>,
   <<"R","e","v","i","e","w">>,
   <<"u","r">>,
   <<"g","e","n","t">>,
   <<"s","p","a","m"," ">>}

TypePieces ==
  {<<"U","R","G","E","N","T">>,
   <<"W","a","r","n","i","n","g">>,
   <<"B","A","N">>,
   <<"e","r","r","o","r">>,
   <<"S","t","r","i","k","e">>,
   <<"r","e","s","o","l","v","e","d">>,
   <<"i","n","f","o">>,
   <<"r","e">>,
   <<"s","o","l","v","e","d">>}

TagWords ==
  {<<"s","p","a","m">>,
   <<"s",".","p",".","a",".","m","!">>,
   <<"a","b">>,
   <<"#","R","e","-","v","i","e","w","_","9">>,
   <<"?","\t","x","-","y">>,
   <<>>}

Reasons == {Concat(ps) : ps \in SeqsUpTo(ReasonPieces, MaxPieces)} \cup {Absent}

AlertTypes == {Concat(ps) : ps \in SeqsUpTo(TypePieces, MaxPieces)} \cup {Absent}

TagReasons == {Join(ws) : ws \in SeqsUpTo(TagWords, MaxWords)} \cup {Absent}

Usernames == {Absent, << >>, <<"b","o","b">>}

Discriminators == {Absent, << >>, <<"0">>, <<"0","0">>, <<"1","2","3","4">>}

DeterminePriority ==
  /\ call = NoCall
  /\ \E reason \in Reasons :
       call' = [fn |-> "determinePriority", reason |-> reason,
                result |-> determinePriority(reason)]
  /\ UNCHANGED <<procVars, httpVars, hubVars>>

ExtractTags ==
  /\ call = NoCall
  /\ \E reason \in TagReasons :
       call' = [fn |-> "extractTags", reason |-> reason, result |-> extractTags(reason)]
  /\ UNCHANGED <<procVars, httpVars, hubVars>>

FormatUsername ==
  /\ call = NoCall
  /\ \E username \in Usernames, discriminator \in Discriminators :
       call' = [fn |-> "formatUsername", username |-> username,
                discriminator |-> discriminator,
                result |-> formatUsername(username, discriminator)]
  /\ UNCHANGED <<procVars, httpVars, hubVars>>

MappedType ==
  /\ call = NoCall
  /\ \E alertType \in AlertTypes :
       call' = [fn |-> "mappedType", type |-> alertType, result |-> mappedType(alertType)]
  /\ UNCHANGED <<procVars, httpVars, hubVars>>

NextText ==
  \/ DeterminePriority
  \/ ExtractTags
  \/ FormatUsername
  \/ MappedType

SpecText == InitListening /\ [][NextText]_vars

----------------------------------------------------------------------------
(* What the handlers compute from the rows their queries returned.  A Date  *)
(* is a number of minutes; a JavaScript number that need not be whole is    *)
(* the fraction num/den, den > 0.                                           *)

\* a null expiresAt
NoDate == -1

Times == {0, 1, 30}

Rat(n, d) == [num |-> n, den |-> d]

\* lines 290-292
minutesBetween(start, end) == IF end - start > 0 THEN end - start ELSE 0

\* value ?? fallback
orElse(value, fallback) == IF value = NoDate THEN fallback ELSE value

RECURSIVE Sum(_)
Sum(numbers) == IF numbers = << >> THEN 0 ELSE Head(numbers) + Sum(Tail(numbers))

\* the rows of prisma.warning.findMany: up to MaxCases of them, in one order
WarningRows == [createdAt : Times, expiresAt : Times \cup {NoDate}]

RowKey(row) == row.createdAt * 100 + row.expiresAt

WarningLists ==
  {rows \in SeqsUpTo(WarningRows, MaxCases) :
     \A k \in 1..(Len(rows) - 1) : RowKey(rows[k]) <= RowKey(rows[k + 1])}

ActiveLists ==
  {rows \in SeqsUpTo([createdAt : Times], MaxCases) :
     \A k \in 1..(Len(rows) - 1) : rows[k].createdAt <= rows[k + 1].createdAt}

\* lines 394-407
avgResponseMinutes(activeWarnings, completedWarnings, now) ==
  IF Len(completedWarnings) > 0
    THEN Rat(Sum([k \in 1..Len(completedWarnings) |->
                    minutesBetween(completedWarnings[k].createdAt,
                                   orElse(completedWarnings[k].expiresAt, now))]),
             Len(completedWarnings))
  ELSE IF Len(activeWarnings) > 0
    THEN Rat(Sum([k \in 1..Len(activeWarnings) |->
                    minutesBetween(activeWarnings[k].createdAt, now)]),
             Len(activeWarnings))
  ELSE Rat(0, 1)

completionRateOfActive(active, completed) ==
  IF active + completed = 0 THEN Rat(100, 1) ELSE Rat(active * 100, active + completed)

\* lines 409-411, of activeWarnings.length and completedWarnings.length
completionRate(active, completed) ==
  IF active + completed = 0 THEN Rat(100, 1) ELSE Rat(completed * 100, active + completed)

\* GET /api/guild/:guildId/dashboard/metrics once its Promise.all has resolved
DashboardMetrics ==
  /\ call = NoCall
  /\ \E activeWarnings \in ActiveLists, completedWarnings \in WarningLists, now \in Times :
       call' = [fn |-> "dashboard/metrics",
                activeWarnings |-> activeWarnings,
                completedWarnings |-> completedWarnings,
                now |-> now,
                result |->
                  [activeReinforcements |-> Len(activeWarnings),
                   avgResponseMinutes |->
                     avgResponseMinutes(activeWarnings, completedWarnings, now),
                   completionRate |->
                     completionRate(Len(activeWarnings), Len(completedWarnings))]]
  /\ UNCHANGED <<procVars, httpVars, hubVars>>

\* the guild's rows of the points table; row k is user k's
PointTables == SeqsUpTo([points : 0..2, level : 1..2], MaxRecords)

\* req.query.limit: no value, or a decimal number
LimitQueries == {{}} \cup {{n} : n \in 1..MaxLimit}

\* parseInt((req.query.limit as string) ?? '10', 10)
parseLimit(query) == IF query = {} THEN 10 ELSE CHOOSE n \in query : TRUE

\* row a comes before row b under { points: 'desc', level: 'desc' }, or under
\* { level: 'desc', points: 'desc' } for metric=level
before(metric, a, b) ==
  IF metric = "level"
    THEN a.level > b.level \/ (a.level = b.level /\ a.points > b.points)
    ELSE a.points > b.points \/ (a.points = b.points /\ a.level > b.level)

\* the orders prisma.points.findMany may return the rows in, as user ids
Orders(metric, table) ==
  {ids \in [1..Len(table) -> 1..Len(table)] :
     /\ \A i, j \in 1..Len(table) : i # j => ids[i] # ids[j]
     /\ \A i, j \in 1..Len(table) : i < j => ~before(metric, table[ids[j]], table[ids[i]])}

\* whether the Prisma client takes an orderBy object that has two fields:
\* its input validation allows one field for each orderBy object
OrderByOutcomes == {"rejected", "sorted"}

\* take: limit
take(rows, limit) == SubSeq(rows, 1, IF limit < Len(rows) THEN limit ELSE Len(rows))

\* pointLeaders.map((entry, index) => ({ position: index + 1, ... }))
positioned(table, ids) ==
  [index \in 1..Len(ids) |->
     [position |-> index, userId |-> ids[index],
      points |-> table[ids[index]].points, level |-> table[ids[index]].level]]

\* GET /api/guild/:guildId/leaderboard with metric points or level, lines 732-757
Leaderboard ==
  /\ call = NoCall
  /\ \E table \in PointTables, query \in LimitQueries, metric \in {"points", "level"},
        outcome \in OrderByOutcomes :
       \E ids \in Orders(metric, table) :
         call' = [fn |-> "leaderboard", metric |-> metric, limit |-> parseLimit(query),
                  table |-> table, orderBy |-> outcome,
                  result |->
                    IF outcome = "rejected"
                      THEN [status |-> 500, body |-> "Failed to fetch leaderboard",
                            entries |-> << >>]
                      ELSE [status |-> 200, body |-> "entries",
                            entries |-> positioned(table, take(ids, parseLimit(query)))]]
  /\ UNCHANGED <<procVars, httpVars, hubVars>>

\* Math.round of a fraction that is not negative
round(x) == (2 * x.num + x.den) \div (2 * x.den)

calculatedScoreNoFloor(avg, assignments, completedCount) ==
  LET raw == Rat((100 - assignments + completedCount * 3) * avg.den - avg.num * 2, avg.den)
  IN IF raw.num > 100 * raw.den THEN Rat(100, 1) ELSE raw

\* lines 657-660: Math.max(55, Math.min(100, 100 - avg * 2 + assignments * -1 + completedCount * 3))
calculatedScore(avg, assignments, completedCount) ==
  LET raw == Rat((100 - assignments + completedCount * 3) * avg.den - avg.num * 2, avg.den)
      capped == IF raw.num > 100 * raw.den THEN Rat(100, 1) ELSE raw
  IN IF capped.num < 55 * capped.den THEN Rat(55, 1) ELSE capped

\* lines 641-648 and 653-655, for one member: the mean over that member's rows
\* of completedWarnings
memberAvgResponseMinutes(rows, now) ==
  IF Len(rows) > 0
    THEN Rat(Sum([k \in 1..Len(rows) |->
                    minutesBetween(rows[k].createdAt, orElse(rows[k].expiresAt, now))]),
             Len(rows))
    ELSE Rat(0, 1)

\* GET /api/guild/:guildId/moderators: the entry members.map builds for one
\* member, from the rows of completedWarnings with its id and from its counts
\* in activeMap and completedTodayMap (0 when it has none)
ModeratorEntry ==
  /\ call = NoCall
  /\ \E rows \in WarningLists, now \in Times,
        assignments \in 0..MaxAssignments, completedCount \in 0..MaxCompletedToday :
       LET avg == memberAvgResponseMinutes(rows, now)
       IN call' = [fn |-> "moderators", completedWarnings |-> rows, now |-> now,
                   result |->
                     [activeAssignments |-> assignments,
                      completedToday |-> completedCount,
                      avgResponseMinutes |-> avg,
                      responseScore |->
                        round(calculatedScore(avg, assignments, completedCount))]]
  /\ UNCHANGED <<procVars, httpVars, hubVars>>

NextCalc ==
  \/ DashboardMetrics
  \/ Leaderboard
  \/ ModeratorEntry

SpecCalc == InitListening /\ [][NextCalc]_vars

----------------------------------------------------------------------------
(* GET /api/guild/:guildId/analytics, lines 795-952.  Dates are minutes since *)
(* the epoch, UTC.                                                            *)

MinutesPerDay == 1440

MaxFlowRows == 2

\* d.setUTCHours(0, 0, 0, 0)
startOfUtcDay(date) == date - (date % MinutesPerDay)

\* d.setUTCDate(d.getUTCDate() + amount)
addUtcDays(date, amount) == date + amount * MinutesPerDay

\* dayStart.toISOString().split('T')[0], as the number of the UTC day
isoDate(date) == date \div MinutesPerDay

\* the moments new Date() is taken at: in the middle of day 20, at midnight
\* of day 21
Clock == {20 * MinutesPerDay + 725, 21 * MinutesPerDay}

\* timestamps of rows: the last minute before the window of day 20, its first
\* minute, inside it, the first minute of day 20 and of day 21
FlowTimes ==
  {7 * MinutesPerDay - 1, 7 * MinutesPerDay, 10 * MinutesPerDay + 30,
   20 * MinutesPerDay, 21 * MinutesPerDay}

\* completed cases with every pair of dates or no expiresAt; active cases
\* without expiresAt or with one
FlowRows ==
  [createdAt : FlowTimes, expiresAt : FlowTimes \cup {NoDate}, active : {FALSE}]
    \cup [createdAt : FlowTimes, expiresAt : {NoDate, 20 * MinutesPerDay}, active : {TRUE}]

\* the guild's rows of the warning table, in one order
FlowTables ==
  LET key(row) == <<row.createdAt, row.expiresAt, IF row.active THEN 1 ELSE 0>>
      inOrder(a, b) ==
        \/ a[1] < b[1]
        \/ a[1] = b[1] /\ a[2] < b[2]
        \/ a[1] = b[1] /\ a[2] = b[2] /\ a[3] <= b[3]
  IN {rows \in SeqsUpTo(FlowRows, MaxFlowRows) :
        \A k \in 1..(Len(rows) - 1) : inOrder(key(rows[k]), key(rows[k + 1]))}

\* Array.from({ length: 14 }).map(...)
dayBuckets(startDate) ==
  [index \in 1..14 |->
     [dayStart |-> addUtcDays(startDate, index - 1),
      dayEnd |-> addUtcDays(addUtcDays(startDate, index - 1), 1)]]

\* the rows a bucket counts as resolved, lines 844-848 and 865-869
resolvedIn(warnings, bucket) ==
  SelectSeq(warnings,
         LAMBDA warning :
           IF warning.active THEN FALSE
           ELSE LET completed == orElse(warning.expiresAt, warning.createdAt)
                IN completed >= bucket.dayStart /\ completed < bucket.dayEnd)

reinforcementFlow(warnings, buckets) ==
  [index \in 1..Len(buckets) |->
     [date |-> isoDate(buckets[index].dayStart),
      created |->
        Len(SelectSeq(warnings,
                   LAMBDA warning : /\ warning.createdAt >= buckets[index].dayStart
                                    /\ warning.createdAt < buckets[index].dayEnd)),
      resolved |-> Len(resolvedIn(warnings, buckets[index]))]]

perDay(numbers) == numbers

\* cumulativeCreated / cumulativeResolved, lines 857-862
cumulative(numbers) ==
  LET RECURSIVE upTo(_)
      upTo(index) == IF index = 0 THEN 0 ELSE upTo(index - 1) + numbers[index]
  IN [index \in 1..Len(numbers) |-> upTo(index)]

responseTrend(warnings, buckets, flow) ==
  LET cumulativeCreated == cumulative([index \in 1..Len(flow) |-> flow[index].created])
      cumulativeResolved == cumulative([index \in 1..Len(flow) |-> flow[index].resolved])
  IN [index \in 1..Len(buckets) |->
        LET dayWarnings == resolvedIn(warnings, buckets[index])
        IN [date |-> isoDate(buckets[index].dayStart),
            avgResponseMinutes |->
              IF Len(dayWarnings) > 0
                THEN Rat(Sum([k \in 1..Len(dayWarnings) |->
                                minutesBetween(dayWarnings[k].createdAt,
                                               orElse(dayWarnings[k].expiresAt,
                                                      dayWarnings[k].createdAt))]),
                         Len(dayWarnings))
                ELSE Rat(0, 1),
            inProgress |-> cumulativeCreated[index] - cumulativeResolved[index]]]

\* the handler once its Promise.all has resolved: the series it builds from
\* the rows of prisma.warning.findMany({ where: { createdAt: { gte: startDate } } })
Analytics ==
  /\ call = NoCall
  /\ \E table \in FlowTables, now \in Clock :
       LET endDate == startOfUtcDay(now)
           startDate == addUtcDays(endDate, -13)
           warnings == SelectSeq(table, LAMBDA row : row.createdAt >= startDate)
           buckets == dayBuckets(startDate)
           flow == reinforcementFlow(warnings, buckets)
       IN call' = [fn |-> "analytics", table |-> table, now |-> now,
                   warnings |-> warnings,
                   result |-> [reinforcementFlow |-> flow,
                               responseTrend |-> responseTrend(warnings, buckets, flow)]]
  /\ UNCHANGED <<procVars, httpVars, hubVars>>

MaxModerators == 9

\* moderatorId of an active warning nobody is assigned to: null
NoModerator == 0

\* the rows of prisma.warning.groupBy({ by: ['moderatorId'], where: { active:
\* true } }): the group of the rows without moderator when there is one, then
\* one group for each of the moderators 1..n, each with its _count._all
AssignmentGroups ==
  UNION {{unassigned \o [k \in 1..n |-> [moderatorId |-> k, count |-> counts[k]]] :
            counts \in [1..n -> {1, 2}],
            unassigned \in {<< >>, <<[moderatorId |-> NoModerator, count |-> 1]>>}} :
         n \in 0..MaxModerators}

\* the row of the user table for a moderator id
userRow(id) ==
  [username |-> <<"m", "o", "d", "-">>
                  \o <<<<"a", "b", "c", "d", "e", "f", "g", "h", "i", "j">>[id]>>,
   discriminator |-> IF id = 2 THEN <<"1", "2", "3", "4">> ELSE <<"0">>]

\* entries.sort((a, b) => b.assignments - a.assignments): stable
sort(entries) ==
  LET RECURSIVE insert(_, _)
      insert(sorted, entry) ==
        IF sorted = << >> THEN <<entry>>
        ELSE IF Head(sorted).assignments >= entry.assignments
          THEN <<Head(sorted)>> \o insert(Tail(sorted), entry)
          ELSE <<entry>> \o sorted
      RECURSIVE upTo(_)
      upTo(k) == IF k = 0 THEN << >> ELSE insert(upTo(k - 1), entries[k])
  IN upTo(Len(entries))

\* lines 914-941; moderatorUsers is the set of the ids prisma.user.findMany
\* returns a row for
modAssignmentLoad(assignmentLoadRaw, moderatorUsers) ==
  LET kept == SelectSeq(assignmentLoadRaw, LAMBDA entry : entry.moderatorId # NoModerator)
      mapped == [k \in 1..Len(kept) |->
                   [name |-> IF kept[k].moderatorId \in moderatorUsers
                               THEN formatUsername(userRow(kept[k].moderatorId).username,
                                                   userRow(kept[k].moderatorId).discriminator)
                               ELSE <<"U", "n", "a", "s", "s", "i", "g", "n", "e", "d">>,
                    assignments |-> kept[k].count]]
  IN take(sort(mapped), 8)

\* the assignment load of the analytics handler: the groups of the third call
\* of its Promise.all, and the moderators whose user row is missing
AssignmentLoad ==
  /\ call = NoCall
  /\ \E assignmentLoadRaw \in AssignmentGroups :
       \E moderatorUsers \in
            LET moderatorIds == {assignmentLoadRaw[k].moderatorId :
                                   k \in 1..Len(assignmentLoadRaw)} \ {NoModerator}
            IN {moderatorIds} \cup {moderatorIds \ {id} : id \in moderatorIds} :
         call' = [fn |-> "analytics load", assignmentLoadRaw |-> assignmentLoadRaw,
                     moderatorUsers |-> moderatorUsers,
                     result |-> modAssignmentLoad(assignmentLoadRaw, moderatorUsers)]
  /\ UNCHANGED <<procVars, httpVars, hubVars>>

\* completedTodayMap of GET /api/guild/:guildId/moderators for one member,
\* lines 595-604 and 627-637: the count of the group of
\* where: { active: false, expiresAt: { gte: startOfUtcDay(new Date()) } };
\* a row whose expiresAt is null matches no gte
completedToday(rows, now) ==
  Len(SelectSeq(rows, LAMBDA warning : /\ ~warning.active
                                    /\ warning.expiresAt # NoDate
                                    /\ warning.expiresAt >= startOfUtcDay(now)))

\* totalCompletedToday of GET /api/guild/:guildId/dashboard/metrics, lines
\* 413-417, over completedWarnings (where: { active: false })
totalCompletedToday(rows, now) ==
  LET completedWarnings == SelectSeq(rows, LAMBDA warning : ~warning.active)
      startToday == startOfUtcDay(now)
  IN Len(SelectSeq(completedWarnings,
                LAMBDA warning : orElse(warning.expiresAt, warning.createdAt) >= startToday))

\* both counts over the warning rows of a guild whose cases all belong to one
\* moderator, taken at the same moment
CompletedToday ==
  /\ call = NoCall
  /\ \E table \in FlowTables, now \in Clock :
       call' = [fn |-> "completed today", table |-> table, now |-> now,
                result |-> [completedToday |-> completedToday(table, now),
                            totalCompletedToday |-> totalCompletedToday(table, now)]]
  /\ UNCHANGED <<procVars, httpVars, hubVars>>

NextAnalytics ==
  \/ Analytics
  \/ AssignmentLoad
  \/ CompletedToday

SpecAnalytics == InitListening /\ [][NextAnalytics]_vars

----------------------------------------------------------------------------
(* The fetches of one dashboard-metrics request, lines 380-392: Promise.all *)
(* starts the calls together and each resolves on its own, while other      *)
(* writers go on changing rows.                                             *)

\* where: { guildId, active: true } and where: { guildId, active: false };
\* the third call, the count of unread notifications, reads no warning row
Matching(warnings, fetch) ==
  {w \in WarningIds :
     IF fetch = "activeWarnings" THEN warnings[w] \in {"queued", "assigned"}
     ELSE warnings[w] = "done"}

readFromSnapshot(atStart, atResolve) == atStart

\* the warning rows a call of the Promise.all is answered from
readFrom(atStart, atResolve) == atResolve

MetricsRequest ==
  /\ call = NoCall
  /\ call' = [fn |-> "dashboard/metrics fetches", stage |-> "awaiting",
              pending |-> {"activeWarnings", "completedWarnings"},
              atStart |-> store.warnings,
              at |-> [f \in {"activeWarnings", "completedWarnings"} |-> store.warnings],
              rows |-> [f \in {"activeWarnings", "completedWarnings"} |-> {}]]
  /\ UNCHANGED <<procVars, httpVars, hubVars>>

FetchResolves(fetch) ==
  /\ call.fn = "dashboard/metrics fetches"
  /\ call.stage = "awaiting"
  /\ fetch \in call.pending
  /\ call' = [call EXCEPT !.pending = @ \ {fetch},
                          !.at[fetch] = store.warnings,
                          !.rows[fetch] =
                            Matching(readFrom(call.atStart, store.warnings), fetch)]
  /\ UNCHANGED <<procVars, httpVars, hubVars>>

\* lines 409-425, once every call has resolved
MetricsRespond ==
  /\ call.fn = "dashboard/metrics fetches"
  /\ call.stage = "awaiting"
  /\ call.pending = {}
  /\ call' = [call EXCEPT !.stage = "answered"]
  /\ resp' = [NoResp EXCEPT
                !.route = "/api/guild/:guildId/dashboard/metrics", !.method = "GET",
                !.guildId = Id18, !.status = 200,
                !.body = [activeReinforcements |-> Cardinality(call.rows["activeWarnings"]),
                          completionRate |->
                            completionRate(Cardinality(call.rows["activeWarnings"]),
                                           Cardinality(call.rows["completedWarnings"]))],
                !.queries = 2]
  /\ UNCHANGED <<procVars, sessions, storeUp, sessUp, store, inflight, hubVars>>

NextFetch ==
  \/ MetricsRequest
  \/ \E fetch \in {"activeWarnings", "completedWarnings"} : FetchResolves(fetch)
  \/ MetricsRespond
  \/ ExternalWrite

SpecFetch == InitListening /\ [][NextFetch]_vars

----------------------------------------------------------------------------
(* Faults that reach the process boundary *)

processEvents == {"unhandledRejection", "uncaughtException"}

\* a process without a listener for the event prints the fault and exits
processDefault(event) == "exit"

\* process.on('unhandledRejection', ...) and process.on('uncaughtException', ...):
\* both listeners only write to console.error
processOn(event) == "console.error"

\* A promise nobody awaits rejects, or a callback throws, while the server is
\* listening.  The record keeps the response and the request in flight as they
\* were when the fault was logged.
ProcessFault(event) ==
  /\ phase = "listening"
  /\ call = NoCall
  /\ call' = [fn |-> "process.on", event |-> event, did |-> processOn(event),
              respBefore |-> resp, inflightBefore |-> inflight]
  /\ IF processOn(event) = "exit"
       THEN phase' = "exited" /\ exitCode' = 1
       ELSE phase' = phase /\ exitCode' = exitCode
  /\ UNCHANGED <<env, dbConn, httpVars, hubVars>>

NextFault ==
  \/ NextBoot
  \/ \E event \in processEvents : ProcessFault(event)

SpecFault == InitBoot /\ [][NextFault]_vars

----------------------------------------------------------------------------
(* Properties *)

CallbackRoute == "/auth/discord/callback"

WellFormedIds == {Id17, Id18, Id19}

\* a response sent by the synchronous part of the chain in this step
Answered == resp' # resp /\ ~inflight.active /\ ~inflight'.active

C3_HealthAlwaysOk ==
  (resp.method = "GET" /\ resp.route = "/health")
    => (resp.status = 200 /\ resp.body = "OK" /\ resp.queries = 0)

\* C4: every 500 or 503 response carries only a fixed message, never the text
\* of the underlying error.
C4_GenericFailureBody ==
  resp.status \in {500, 503} => resp.message = NoMessage

\* C5: when the provider exchange of GET /auth/discord/callback fails, the
\* response is a 302 to the failure location, not the error handler's, and an
\* unauthenticated session stays unauthenticated.
C5_FailedExchangeRedirects ==
  (resp.route = CallbackRoute /\ resp.oauth \in {"denied", "token_error", "profile_error"})
    => /\ resp.status = 302
       /\ resp.location = "/"
       /\ resp.body # "Internal server error"
       /\ resp.isAuthenticated = "no" => sessions[resp.client] \notin Profiles

MandatoryMissing ==
  \/ \E key \in {"DISCORD_CLIENT_ID", "DISCORD_CLIENT_SECRET", "DATABASE_URL", "SESSION_SECRET"} :
       key \notin env.set
  \/ /\ env.NODE_ENV = "production"
     /\ "REDIS_URL" \notin env.set
     /\ "SESSION_REDIS_URL" \notin env.set

C7_MissingConfigIsFatal ==
  MandatoryMissing
    => /\ phase \in {"boot", "exited"}
       /\ phase = "exited" => exitCode = 1
       /\ resp = NoResp
       /\ ~inflight.active
       /\ dbConn = "idle"

C7_Witness ==
  /\ phase = "exited"
  /\ exitCode = 1
  /\ env.set = EnvVarNames \ {"SESSION_SECRET"}

\* C8: a step in which a request arrives or a handler gets its answer leaves
\* the store contents as they were, and every call a handler has issued is a
\* read.
C8_AggregationReadOnly ==
  /\ [](/\ \A q \in resp.ops : q.op \in ReadOps
        /\ \A q \in inflight.ops : q.op \in ReadOps)
  /\ [][(resp' # resp \/ inflight' # inflight) => store' = store]_vars

C8_Witness ==
  /\ resp.route = "/api/guild/:guildId/reinforcements"
  /\ resp.status = 200
  /\ resp.queries = 2
  /\ \E w \in WarningIds : store.warnings[w] \in {"queued", "assigned"}

\* C9: a socket is in guild X's room exactly when it is connected and has
\* emitted subscribe:guild with X since connecting; every broadcast into guild
\* X's room went to exactly the sockets that were such members at that time.
C9_GroupMembership ==
  /\ \A s \in SocketIds, g \in HubGuilds :
       GuildRoom(g) \in rooms[s] <=> (sock[s] = "connected" /\ g \in emitted[s])
  /\ \A i \in 1..Len(eventLog) :
       /\ eventLog[i].to = eventLog[i].subscribers
       /\ \A s \in SocketIds : i \in inbox[s] <=> s \in eventLog[i].subscribers

C9_Witness ==
  \E i \in 1..Len(eventLog), s1, s2 \in SocketIds :
    /\ s1 \in eventLog[i].to
    /\ s2 \notin eventLog[i].to
    /\ sock[s2] = "connected"
    /\ emitted[s2] # {}
    /\ eventLog[i].guild \notin emitted[s2]

\* C10: a disconnected socket is in no room, whatever it had joined, and no
\* broadcast made while it is disconnected reaches it.
C10_DisconnectLeavesAll ==
  /\ [](\A s \in SocketIds : sock[s] = "disconnected" => rooms[s] = {})
  /\ [][\A s \in SocketIds : sock[s] = "disconnected" => inbox'[s] = inbox[s]]_vars

C10_Witness ==
  \E s \in SocketIds, i \in 1..Len(eventLog) :
    /\ sock[s] = "disconnected"
    /\ eventLog[i].guild \in emitted[s]
    /\ i \notin inbox[s]
    /\ eventLog[i].to # {}

\* C11: a socket receives an event only in the step that broadcasts it, and
\* only if it is in the guild's room before that step: subscribing afterwards
\* delivers nothing that was broadcast earlier.
C11_NoReplay ==
  [][\A s \in SocketIds : \A i \in inbox'[s] \ inbox[s] :
       /\ Len(eventLog') = Len(eventLog) + 1
       /\ i = Len(eventLog')
       /\ GuildRoom(eventLog'[i].guild) \in rooms[s]]_vars

C11_Witness ==
  \E s \in SocketIds, i \in 1..Len(eventLog) :
    /\ sock[s] = "connected"
    /\ GuildRoom(eventLog[i].guild) \in rooms[s]
    /\ s \notin eventLog[i].subscribers
    /\ i \notin inbox[s]

\* C12: every connected socket can emit subscribe:guild with any payload, and
\* having emitted it is in that guild's room, although no session is
\* authenticated and whether or not the payload is a well-formed Snowflake.
C12_SubscribeUnchecked ==
  \A s \in SocketIds, g \in HubGuilds :
    sock[s] = "connected"
      => /\ ENABLED Subscribe(s, g)
         /\ g \in emitted[s] => GuildRoom(g) \in rooms[s]

C12_Witness ==
  \E s \in SocketIds :
    /\ sock[s] = "connected"
    /\ Id12a \in emitted[s]
    /\ GuildRoom(Id12a) \in rooms[s]
    /\ ~IsSnowflake(Id12a)
    /\ \A c \in Clients : isAuthenticated(c) = "no"

\* a and b are the same character, or the two cases of one letter
SameLetter(a, b) == a = b \/ \E k \in 1..Len(Upper) : {a, b} = {Upper[k], Lower[k]}

\* str contains word, whatever the casing
Mentions(str, word) ==
  \E i \in 0..(Len(str) - Len(word)) : \A j \in 1..Len(word) : SameLetter(str[i + j], word[j])

PriorityByKeyword(str) ==
  IF Mentions(str, lit.urgent) \/ Mentions(str, lit.raid) \/ Mentions(str, lit.critical)
    THEN "urgent"
  ELSE IF Mentions(str, lit.high) \/ Mentions(str, lit.warning) THEN "high"
  ELSE IF Mentions(str, lit.medium) \/ Mentions(str, lit.review) THEN "medium"
  ELSE "low"

\* C13 (amended): determinePriority gives medium for an absent or empty
\* reason, and for every other reason the priority of the first rule, in the
\* order urgent, high, medium, that has a keyword the reason contains in any
\* casing, low when none has.
C13_PriorityByFirstMatch ==
  call.fn = "determinePriority"
    => call.result = IF call.reason = Absent \/ call.reason = << >>
                       THEN "medium"
                       ELSE PriorityByKeyword(call.reason)

C13_Witness ==
  /\ call.fn = "determinePriority"
  /\ call.reason = <<"H","i","g","h","U","R","G","E","N","T">>
  /\ call.result = "urgent"

\* C13 as stated: only an absent reason gives medium; every reason string,
\* the empty one included, is classified by the keywords it contains.
C13_AsStated ==
  call.fn = "determinePriority"
    => call.result = IF call.reason = Absent THEN "medium" ELSE PriorityByKeyword(call.reason)

\* the positions at which a whitespace-separated token of str starts
TokenStarts(str) ==
  {i \in 1..Len(str) : str[i] \notin Whitespace /\ (i = 1 \/ str[i - 1] \in Whitespace)}

\* the token of str that starts at i, without the characters a tag cannot have
StrippedToken(str, i) ==
  LET j == CHOOSE j \in i..Len(str) :
             /\ \A k \in i..j : str[k] \notin Whitespace
             /\ j = Len(str) \/ str[j + 1] \in Whitespace
  IN SelectSeq(SubSeq(str, i, j), LAMBDA c : c \in Letters \cup Digit \cup {"#", "_", "-"})

\* C14: extractTags returns at most 4 tags, each of 3 or more characters out
\* of the alphanumerics, '#', '_' and '-'; the k-th tag is the k-th token of
\* the whitespace-split reason that has 3 or more characters left after
\* stripping, so order and duplicates are kept and only the first 4 are taken.
C14_TagsAreFirstFour ==
  call.fn = "extractTags"
    => LET str == IF call.reason = Absent THEN << >> ELSE call.reason
           qualifying == {i \in TokenStarts(str) : Len(StrippedToken(str, i)) >= 3}
           tags == call.result
       IN /\ Len(tags) <= 4
          /\ Len(tags) = IF Cardinality(qualifying) < 4 THEN Cardinality(qualifying) ELSE 4
          /\ \A k \in 1..Len(tags) :
               /\ Len(tags[k]) >= 3
               /\ \A m \in 1..Len(tags[k]) : tags[k][m] \in Letters \cup Digit \cup {"#", "_", "-"}
               /\ \E i \in qualifying :
                    /\ Cardinality({n \in qualifying : n < i}) = k - 1
                    /\ tags[k] = StrippedToken(str, i)

C14_Witness ==
  /\ call.fn = "extractTags"
  /\ call.reason = Join(<<<<"s","p","a","m">>, <<"s",".","p",".","a",".","m","!">>, <<"#","R","e","-","v","i","e","w","_","9">>, <<"?","\t","x","-","y">>, <<"s","p","a","m">>>>)
  /\ call.result = <<<<"s","p","a","m">>, <<"s","p","a","m">>, <<"#","R","e","-","v","i","e","w","_","9">>, <<"x","-","y">>>>

\* C15 (amended): formatUsername gives "Unknown Member" for an absent or empty
\* name whatever the discriminator, name#discriminator for any other name
\* with a discriminator that is neither absent, empty nor "0", and the bare
\* name in every other case.
C15_UsernameFormat ==
  call.fn = "formatUsername"
    => call.result =
         IF call.username \in {Absent, << >>} THEN <<"U","n","k","n","o","w","n"," ","M","e","m","b","e","r">>
         ELSE IF call.discriminator \notin {Absent, << >>, <<"0">>}
           THEN call.username \o <<"#">> \o call.discriminator
         ELSE call.username

C15_Witness ==
  /\ call.fn = "formatUsername"
  /\ call.username = <<"b","o","b">>
  /\ call.discriminator = <<"1","2","3","4">>
  /\ call.result = <<"b","o","b","#","1","2","3","4">>

\* C15 as stated: a name or discriminator counts as present unless it is
\* absent, so the empty string is a name, and a discriminator other than "0".
C15_AsStated ==
  call.fn = "formatUsername"
    => call.result =
         IF call.username = Absent THEN <<"U","n","k","n","o","w","n"," ","M","e","m","b","e","r">>
         ELSE IF call.discriminator \notin {Absent, <<"0">>}
           THEN call.username \o <<"#">> \o call.discriminator
         ELSE call.username

\* C20: an alert's type maps to urgent when it contains "urgent", "warning"
\* or "ban" in any casing; otherwise to warning when it contains "error" or
\* "strike"; otherwise to resolved when it contains "resolved"; otherwise,
\* and when it is absent, to info.
C20_AlertTypeByFirstMatch ==
  call.fn = "mappedType"
    => LET str == IF call.type = Absent THEN << >> ELSE call.type
       IN call.result =
            IF Mentions(str, lit.urgent) \/ Mentions(str, lit.warning) \/ Mentions(str, lit.ban)
              THEN "urgent"
            ELSE IF Mentions(str, lit.error) \/ Mentions(str, lit.strike) THEN "warning"
            ELSE IF Mentions(str, lit.resolved) THEN "resolved"
            ELSE "info"

C20_Witness ==
  /\ call.fn = "mappedType"
  /\ call.type = <<"r","e","s","o","l","v","e","d","S","t","r","i","k","e","B","A","N">>
  /\ call.result = "urgent"

\* C16: completionRate is 100 when the guild has no case and otherwise
\* completed / (active + completed) x 100, which is 25 for 3 active and 1
\* completed; it is never below 0 or above 100.
C16_CompletionRate ==
  call.fn = "dashboard/metrics"
    => LET active == Len(call.activeWarnings)
           completed == Len(call.completedWarnings)
           rate == call.result.completionRate
       IN /\ rate.den > 0
          /\ active + completed = 0 => rate.num = 100 * rate.den
          /\ active + completed > 0 => rate.num * (active + completed) = 100 * completed * rate.den
          /\ (active = 3 /\ completed = 1) => rate.num = 25 * rate.den
          /\ 0 <= rate.num
          /\ rate.num <= 100 * rate.den

C16_Witness ==
  /\ call.fn = "dashboard/metrics"
  /\ Len(call.activeWarnings) = 3
  /\ Len(call.completedWarnings) = 1
  /\ call.result.completionRate.num = 25 * call.result.completionRate.den

\* the leaderboard of a request with metric=points and the limit call.limit:
\* min(limit, n) entries, in non-increasing order of points, positions 1, 2, ...
PointsLeaderboard ==
  LET entries == call.result.entries
      n == Len(call.table)
  IN /\ call.result.status = 200
     /\ Len(entries) = IF call.limit < n THEN call.limit ELSE n
     /\ \A k \in 1..Len(entries) :
          /\ entries[k].position = k
          /\ entries[k].points = call.table[entries[k].userId].points
     /\ \A k \in 1..(Len(entries) - 1) : entries[k].points >= entries[k + 1].points
     /\ \A i, j \in 1..Len(entries) : i # j => entries[i].userId # entries[j].userId

\* C17: for metric="points" and a limit L >= 1 on a guild with n point records
\* the leaderboard returns min(L, n) entries in non-increasing order of
\* points, with positions 1, 2, ..., min(L, n).
C17_PointsLeaderboard ==
  (call.fn = "leaderboard" /\ call.metric = "points" /\ call.limit >= 1) => PointsLeaderboard

\* what C17 says holds whenever the store call is answered with rows
LeaderboardOfReturnedRows ==
  (/\ call.fn = "leaderboard"
   /\ call.metric = "points"
   /\ call.limit >= 1
   /\ call.orderBy = "sorted") => PointsLeaderboard

\* C18: a roster member's responseScore is the integer nearest to
\* 100 - 2 x meanMinutes - activeAssignments + 3 x completedToday held between
\* 55 and 100, so it is between 55 and 100; (0, 0, 5) gives 100 and
\* (30, 2, 0) gives 55.
C18_ResponseScore ==
  call.fn = "moderators"
    => LET mean == call.result.avgResponseMinutes
           active == call.result.activeAssignments
           today == call.result.completedToday
           score == call.result.responseScore
           \* 100 - 2 mean - active + 3 today, as xnum / mean.den
           xnum == (100 - active + 3 * today) * mean.den - 2 * mean.num
           held == IF xnum < 55 * mean.den THEN 55 * mean.den
                   ELSE IF xnum > 100 * mean.den THEN 100 * mean.den
                   ELSE xnum
       IN /\ score \in 55..100
          /\ 2 * (score * mean.den - held) <= mean.den
          /\ 2 * (held - score * mean.den) <= mean.den
          /\ (mean.num = 0 /\ active = 0 /\ today = 5) => score = 100
          /\ (mean.num = 30 * mean.den /\ active = 2 /\ today = 0) => score = 55

C18_Witness ==
  /\ call.fn = "moderators"
  /\ call.result.avgResponseMinutes.num = 30 * call.result.avgResponseMinutes.den
  /\ call.result.activeAssignments = 2
  /\ call.result.completedToday = 0
  /\ call.result.responseScore = 55

\* C19: in the mean response time of the dashboard metrics and of a roster
\* member, a completed case without expiresAt counts as 0 minutes (its
\* completion timestamp is its createdAt), and one with expiresAt as the
\* minutes from createdAt to expiresAt.
C19_CompletedWithoutExpiryIsZero ==
  (call.fn \in {"dashboard/metrics", "moderators"} /\ Len(call.completedWarnings) > 0)
    => LET rows == call.completedWarnings
           total == Sum([k \in 1..Len(rows) |->
                           IF rows[k].expiresAt = NoDate THEN 0
                           ELSE minutesBetween(rows[k].createdAt, rows[k].expiresAt)])
           avg == call.result.avgResponseMinutes
       IN avg.num * Len(rows) = total * avg.den

\* C21: the handler of GET /health/detailed answers 503 "Database connection
\* failed" when its SELECT 1 is rejected and 200 with database: connected when
\* it resolves; a 200 of this route always follows a resolved query.
C21_DetailedHealth ==
  [][(/\ inflight.active
      /\ inflight.req.route = "/health/detailed"
      /\ ~inflight'.active)
       => /\ resp'.route = "/health/detailed"
          /\ resp'.queries = 1
          /\ storeUp => (resp'.status = 200 /\ resp'.body = "healthy, database: connected")
          /\ ~storeUp => (resp'.status = 503 /\ resp'.body = "Database connection failed")
    ]_vars

C21_Witness ==
  /\ resp.route = "/health/detailed"
  /\ resp.status = 503
  /\ resp.queries = 1
  /\ ~storeUp

\* C22: each fetch of a dashboard-metrics request returns the matching rows of
\* the store as it is when that fetch resolves, not as it was when the
\* request started or when another fetch resolved, so a case the bot
\* completes in between can be in both results or in neither.
C22_FetchesReadSeparately ==
  call.fn = "dashboard/metrics fetches"
    => \A fetch \in {"activeWarnings", "completedWarnings"} \ call.pending :
         call.rows[fetch] = Matching(call.at[fetch], fetch)

\* answered, with a case counted as active and as completed
C22_Witness ==
  /\ call.fn = "dashboard/metrics fetches"
  /\ call.stage = "answered"
  /\ \E w \in WarningIds :
       /\ w \in call.rows["activeWarnings"]
       /\ w \in call.rows["completedWarnings"]
  /\ resp.body.activeReinforcements = 1
  /\ resp.body.completionRate.num * 2 = 100 * resp.body.completionRate.den

\* answered, with a case that was active for one fetch and completed for the
\* other counted by neither
CountedInNeither ==
  /\ call.fn = "dashboard/metrics fetches"
  /\ call.stage = "answered"
  /\ \E w \in WarningIds :
       /\ call.at["activeWarnings"][w] = "done"
       /\ call.at["completedWarnings"][w] \in {"queued", "assigned"}
       /\ w \notin call.rows["activeWarnings"] \cup call.rows["completedWarnings"]

\* C23: once the server is listening, an unhandled promise rejection or an
\* uncaught exception is logged and leaves the process running: the step of
\* the fault changes neither the phase nor the exit status, and a server that
\* has logged a fault and is still listening accepts the next request.
C23_FaultsAreLoggedOnly ==
  /\ [][(call' # call)
          => /\ phase = "listening"
             /\ call'.fn = "process.on"
             /\ call'.did = "console.error"
             /\ phase' = "listening"
             /\ exitCode' = -1]_vars
  /\ []((call.fn = "process.on" /\ phase = "listening" /\ ~inflight.active)
          => ENABLED (\E r \in BootProbes : Arrive(r)))

\* a fault was logged while nothing was in flight and nothing had been sent,
\* and a request that arrived afterwards has been answered with 200
C23_Witness ==
  /\ call.fn = "process.on"
  /\ call.event = "unhandledRejection"
  /\ call.respBefore = NoResp
  /\ ~call.inflightBefore.active
  /\ phase = "listening"
  /\ exitCode = -1
  /\ resp.status = 200
  /\ resp.route = "/health/detailed"

\* the rejection of prisma.$connect() has its own catch, which ends the process
\* although the server is listening, before or after a logged fault
ConnectFailureExitsAfterFault ==
  /\ call.fn = "process.on"
  /\ phase = "exited"
  /\ dbConn = "failed"

\* C24: the analytics view has 14 day buckets, the first 13 days before the
\* start of the current UTC day and each the day after the one before it, and
\* the inProgress of every bucket is the sum of the created counts up to and
\* including that bucket minus the sum of the resolved counts up to it.
C24_FourteenBucketsRunningTotals ==
  call.fn = "analytics"
    => LET flow == call.result.reinforcementFlow
           trend == call.result.responseTrend
       IN /\ Len(flow) = 14
          /\ Len(trend) = 14
          /\ flow[14].date * MinutesPerDay <= call.now
          /\ call.now < (flow[14].date + 1) * MinutesPerDay
          /\ \A i \in 1..13 : flow[i + 1].date = flow[i].date + 1
          /\ \A i \in 1..14 :
               /\ trend[i].date = flow[i].date
               /\ trend[i].inProgress =
                    Sum([j \in 1..i |-> flow[j].created])
                      - Sum([j \in 1..i |-> flow[j].resolved])

\* two cases created on day 10 of which one was completed today: 2 in
\* progress from day 10 on, 1 from today on
C24_Witness ==
  /\ call.fn = "analytics"
  /\ call.now = 20 * MinutesPerDay + 725
  /\ Len(call.warnings) = 2
  /\ call.result.reinforcementFlow[4].created = 2
  /\ call.result.reinforcementFlow[14].resolved = 1
  /\ call.result.responseTrend[3].inProgress = 0
  /\ call.result.responseTrend[4].inProgress = 2
  /\ call.result.responseTrend[13].inProgress = 2
  /\ call.result.responseTrend[14].inProgress = 1

\* C29: in the analytics response trend inProgress is not negative in any day
\* bucket, whatever the rows of the store are.
C29_InProgressNeverNegative ==
  call.fn = "analytics"
    => \A i \in 1..Len(call.result.responseTrend) :
         call.result.responseTrend[i].inProgress >= 0

\* C25: the assignment-load list of the analytics view has at most 8 entries
\* in non-increasing order of their numbers of active assigned cases, the entry
\* of a moderator carries that moderator's formatted name, and the active
\* cases without a moderator have an entry named "Unassigned" whenever their
\* number puts them among the first 8.
C25_AssignmentLoad ==
  call.fn = "analytics load"
    => LET raw == call.assignmentLoadRaw
           load == call.result
           named(id) == formatUsername(userRow(id).username, userRow(id).discriminator)
           Unassigned == <<"U", "n", "a", "s", "s", "i", "g", "n", "e", "d">>
       IN /\ Len(load) <= 8
          /\ \A k \in 1..(Len(load) - 1) : load[k].assignments >= load[k + 1].assignments
          /\ \A k \in 1..Len(load) :
               \/ load[k].name = Unassigned
               \/ \E j \in 1..Len(raw) :
                    /\ raw[j].moderatorId # NoModerator
                    /\ load[k].name = named(raw[j].moderatorId)
                    /\ load[k].assignments = raw[j].count
          /\ \A j \in 1..Len(raw) :
               (/\ raw[j].moderatorId = NoModerator
                /\ Cardinality({i \in 1..Len(raw) : raw[i].count >= raw[j].count}) <= 8)
                 => \E k \in 1..Len(load) :
                      load[k].name = Unassigned /\ load[k].assignments = raw[j].count

\* what the list does hold: at most 8 entries, the 8 largest groups that have a
\* moderator, in non-increasing order, each named after its moderator's user
\* row or "Unassigned" when that row is missing
AssignmentLoadOfModerators ==
  call.fn = "analytics load"
    => LET raw == call.assignmentLoadRaw
           load == call.result
           named(id) == formatUsername(userRow(id).username, userRow(id).discriminator)
           Unassigned == <<"U", "n", "a", "s", "s", "i", "g", "n", "e", "d">>
           groups == {j \in 1..Len(raw) : raw[j].moderatorId # NoModerator}
       IN /\ Len(load) = IF Cardinality(groups) < 8 THEN Cardinality(groups) ELSE 8
          /\ \A k \in 1..(Len(load) - 1) : load[k].assignments >= load[k + 1].assignments
          /\ \A k \in 1..Len(load) :
               LET same == {l \in 1..Len(load) : load[l] = load[k]}
                   from == {j \in groups :
                              /\ raw[j].count = load[k].assignments
                              /\ load[k].name =
                                   IF raw[j].moderatorId \in call.moderatorUsers
                                     THEN named(raw[j].moderatorId) ELSE Unassigned}
               IN Cardinality(same) <= Cardinality(from)
          /\ \A c \in {1, 2} :
               LET larger == Cardinality({j \in groups : raw[j].count >= c})
               IN Cardinality({k \in 1..Len(load) : load[k].assignments >= c})
                    = IF larger < 8 THEN larger ELSE 8

\* nine moderators with cases and one case without a moderator: eight entries,
\* none of them for the case without moderator
UnassignedCasesHaveNoEntry ==
  /\ call.fn = "analytics load"
  /\ Len(call.assignmentLoadRaw) = 10
  /\ call.assignmentLoadRaw[1].moderatorId = NoModerator
  /\ call.moderatorUsers = 1..9
  /\ Len(call.result) = 8
  /\ call.result[1].assignments = 2
  /\ call.result[8].assignments = 1

\* C26: a roster member's completedToday is the number of that moderator's
\* completed cases whose completion time, expiresAt or createdAt when there is
\* no expiresAt, is at or after the start of the current UTC day, and so
\* equals the totalCompletedToday the dashboard metrics count over the same
\* cases.
C26_CompletedTodayRule ==
  call.fn = "completed today"
    => LET today == call.now - (call.now % MinutesPerDay)
           completion(row) == IF row.expiresAt = NoDate THEN row.createdAt ELSE row.expiresAt
       IN /\ call.result.completedToday =
               Cardinality({k \in 1..Len(call.table) :
                              ~call.table[k].active /\ completion(call.table[k]) >= today})
          /\ call.result.completedToday = call.result.totalCompletedToday

\* on rows that all have an expiresAt the two counts do agree
CompletedTodayWithExpiry ==
  (/\ call.fn = "completed today"
   /\ \A k \in 1..Len(call.table) : call.table[k].expiresAt # NoDate)
    => call.result.completedToday = call.result.totalCompletedToday

C28_ResponseIgnoresGuildList ==
  /\ [][(/\ resp' # resp
         /\ resp'.method = "GET"
         /\ resp'.route \in GuildRoutes \cup {UserRoute}
         /\ resp'.isAuthenticated = "yes")
          => /\ resp'.user \in Profiles
             /\ IF ~inflight.active
                  THEN /\ resp'.status = 400
                       /\ resp'.queries = 0
                       /\ resp'.body = IF resp'.guildId \in WellFormedIds
                                         THEN "Invalid userId" ELSE "Invalid guildId"
                  ELSE /\ resp'.guildId = inflight.req.guildId
                       /\ resp'.status = IF storeUp THEN 200 ELSE 500
                       /\ resp'.body = IF storeUp THEN "view" ELSE CatchBody(resp'.route)]_vars
  /\ [](Id18 \in guilds("alice") /\ Id18 \notin guilds("bob"))

\* bob, whose guild list does not have guild Id18, is sent the stats of Id18
C28_Witness ==
  /\ resp.route = "/api/guild/:guildId/stats"
  /\ resp.user = "bob"
  /\ resp.guildId = Id18
  /\ resp.guildId \notin guilds(resp.user)
  /\ resp.status = 200
  /\ resp.body = "view"
  /\ resp.queries = 3

\* alice, whose list has the guild, is sent the same
ListedGuildSameAnswer ==
  /\ resp.route = "/api/guild/:guildId/stats"
  /\ resp.user = "alice"
  /\ resp.guildId = Id18
  /\ resp.status = 200
  /\ resp.body = "view"
  /\ resp.queries = 3

\* C30: while every store call returns, a request to an aggregation route is
\* answered, and answered once: a response is sent only by the step that ends
\* the request it belongs to, a handler goes through its groups of calls in
\* order, each once, and the step in which a call is rejected ends the request
\* with the catch block's 500, the rejected group being the last one issued.
C30_AnsweredExactlyOnce ==
  /\ [][/\ (resp' # resp /\ inflight.active)
             => (~inflight'.active /\ resp'.route = inflight.req.route)
        /\ (~inflight.active /\ inflight'.active) => resp' = NoResp
        /\ (inflight.active /\ inflight'.active)
             => /\ (inflight' # inflight => storeUp)
                /\ (inflight' # inflight => inflight'.step = inflight.step + 1)
                /\ inflight'.req = inflight.req
                /\ resp' = resp
        /\ (inflight.active /\ ~storeUp /\ inflight' # inflight)
             => /\ ~inflight'.active
                /\ resp'.status = 500
                /\ resp'.queries =
                     inflight.queries
                       + Len(Plan(inflight.req.route, inflight.req.metric)[inflight.step + 1])
       ]_vars
  /\ (inflight.active ~> ~inflight.active)

\* the roster's second group of calls was rejected: one 500, five calls issued
C30_Witness ==
  /\ ~inflight.active
  /\ resp.route = "/api/guild/:guildId/moderators"
  /\ resp.status = 500
  /\ resp.body = "Failed to load moderator data"
  /\ resp.queries = 5

====
